---- MODULE Spec2Model ----
(***************************************************************************)
(* Model of src/src/EtymoApp.jsx, the SpanishEtymologyAnalyzer component.  *)
(*                                                                         *)
(* A JavaScript string is modelled as a sequence of atoms.  An atom is a   *)
(* run of characters that the code never looks inside of: one whitespace   *)
(* character (" " or "\n"), the three-backquote fence marker, the letters   *)
(* "json", one JSON punctuation character, or a run of other characters.   *)
(* trim(), the fence-stripping regular expression, JSON.parse,             *)
(* toLowerCase(), startsWith() and includes() are defined on atoms the way *)
(* the JavaScript functions work on the characters.                        *)
(*                                                                         *)
(* An event handler reads the state of the render it was created in; the   *)
(* component is rendered again between two events, so a handler reads the  *)
(* current state.  The continuation of analyzeWord after its await keeps   *)
(* the word and recentSearches of the render that started it: they are     *)
(* stored with the request in flight.                                      *)
(***************************************************************************)
EXTENDS Integers, Sequences, FiniteSets, Bags, TLC

VARIABLES
    word,               \* useState('')                      line 5
    analysis,           \* useState(null)                    line 6
    loading,            \* useState(false)                   line 7
    error,              \* useState('')                      line 8
    recentSearches,     \* useState([...])                   line 9
    expandedSections,   \* useState({...})                   line 10
    copied,             \* useState(false)                   line 16
    availableVoices,    \* useState([])                      line 17
    selectedVoice,      \* useState(null)                    line 18
    showVoiceSelector,  \* useState(false)                   line 19
    catalog,            \* speechSynthesis.getVoices(), owned by the host
    clipboard,          \* the text on the clipboard, owned by the host
    mounted,            \* the effect of lines 22-44 has run
    flows,              \* bag of the calls of analyzeWord suspended at await fetch
    served,             \* history: response and word behind the stored record
    searched,           \* history: trimmed words of the analyses that succeeded
    overlapped,         \* history: some analysis started while another was pending
    manual,             \* history: the user picked a voice in the selector
    copyRaised          \* history: the record on which copyAnalysis last raised

vars == <<word, analysis, loading, error, recentSearches, availableVoices,
          selectedVoice, showVoiceSelector, catalog, mounted, flows,
          served, searched, overlapped, manual, expandedSections, copied,
          clipboard, copyRaised>>

searchVars == <<word, analysis, loading, error, recentSearches, flows,
                served, searched, overlapped>>

voiceVars == <<availableVoices, selectedVoice, showVoiceSelector, catalog,
               mounted, manual>>

viewVars == <<expandedSections, copied, clipboard, copyRaised>>

----------------------------------------------------------------------------
(* Bounds *)

MaxSearches == 3    \* analyses of one run that succeed or are pending
MaxFlows == 2       \* analyses pending at one time

----------------------------------------------------------------------------
(* JavaScript values *)

null == [t |-> "null"]
undefined == [t |-> "undefined"]
Str(s) == [t |-> "str", v |-> s]
Num(n) == [t |-> "num", v |-> n]
Arr(a) == [t |-> "arr", v |-> a]
Obj(f) == [t |-> "obj", v |-> f]

\* \s of the regular expression and the white space of trim() and JSON
IsWs(c) == c \in {" ", "\n"}

RECURSIVE TrimStart(_)
TrimStart(s) ==
    IF s # <<>> /\ IsWs(Head(s)) THEN TrimStart(Tail(s)) ELSE s

RECURSIVE TrimEnd(_)
TrimEnd(s) ==
    IF s # <<>> /\ IsWs(s[Len(s)]) THEN TrimEnd(SubSeq(s, 1, Len(s) - 1)) ELSE s

\* String.prototype.trim
Trim(s) == TrimEnd(TrimStart(s))

\* Array.prototype.filter(s => s # w)
RECURSIVE FilterOut(_, _)
FilterOut(list, w) ==
    IF list = <<>> THEN <<>>
    ELSE IF Head(list) = w THEN FilterOut(Tail(list), w)
    ELSE <<Head(list)>> \o FilterOut(Tail(list), w)

\* Array.prototype.slice(0, n)
Slice0(list, n) == SubSeq(list, 1, IF Len(list) < n THEN Len(list) ELSE n)

RecentLimit == 5

\* line 129 without its filter: an entry searched again is listed twice
NewSearchesKeepDuplicates(w, list) == Slice0(<<Trim(w)>> \o list, RecentLimit)

\* line 129 without its slice: the list grows with every new word
NewSearchesUnbounded(w, list) == <<Trim(w)>> \o FilterOut(list, Trim(w))

\* line 129: [word.trim(), ...recentSearches.filter(s => s !== word.trim())].slice(0, 5)
NewSearches(w, list) == Slice0(<<Trim(w)>> \o FilterOut(list, Trim(w)), RecentLimit)

\* line 9; the accent of the third entry is left out
InitialRecentSearches == << <<"biblioteca">>, <<"ventana">>, <<"corazon">> >>

----------------------------------------------------------------------------
(* The completion text: fence stripping and JSON.parse, lines 113-114 *)

\* the atom of three backquotes that opens or closes a markdown code fence
FENCE == "<3 backquotes>"

\* index of the first atom of s at or after i that is not white space,
\* Len(s) + 1 if there is none
SkipWs(s, i) ==
    IF \E j \in i..Len(s) : ~IsWs(s[j])
    THEN CHOOSE j \in i..Len(s) : ~IsWs(s[j]) /\ \A m \in i..(j - 1) : IsWs(s[m])
    ELSE Len(s) + 1

\* Last index of the match of /FENCE json\s*|\s*FENCE/ that starts at i, 0 if the
\* expression does not match there.  The first alternative is tried first.
FenceMatchEnd(s, i) ==
    IF s[i] = FENCE /\ i < Len(s) /\ s[i + 1] = "json"
    THEN SkipWs(s, i + 2) - 1
    ELSE LET j == SkipWs(s, i)
         IN  IF j <= Len(s) /\ s[j] = FENCE THEN j ELSE 0

RECURSIVE ReplaceFences(_, _)
\* aiResponse.replace(/FENCE json\s*|\s*FENCE/g, ''), scanning from index i:
\* the text up to the leftmost match, then the text after that match
ReplaceFences(s, i) ==
    IF \E j \in i..Len(s) : FenceMatchEnd(s, j) > 0
    THEN LET j == CHOOSE j \in i..Len(s) :
                      /\ FenceMatchEnd(s, j) > 0
                      /\ \A m \in i..(j - 1) : FenceMatchEnd(s, m) = 0
         IN  SubSeq(s, i, j - 1) \o ReplaceFences(s, FenceMatchEnd(s, j) + 1)
    ELSE SubSeq(s, i, Len(s))

\* line 113
CleanedResponse(aiResponse) == Trim(ReplaceFences(aiResponse, 1))

ParseFail == [ok |-> FALSE, val |-> undefined, next |-> 0]
ParseOk(v, n) == [ok |-> TRUE, val |-> v, next |-> n]

IsDigit(c) == c \in {"0", "7"}
DigitValue(c) == IF c = "0" THEN 0 ELSE 7

\* index of the quote that closes the string opened before i, 0 if there is
\* none or a raw line break comes first (JSON strings hold no control character)
ClosingQuote(s, i) ==
    IF \E j \in i..Len(s) : s[j] = "\"" /\ \A m \in i..(j - 1) : s[m] \notin {"\"", "\n"}
    THEN CHOOSE j \in i..Len(s) :
            s[j] = "\"" /\ \A m \in i..(j - 1) : s[m] \notin {"\"", "\n"}
    ELSE 0

\* s[i] is the opening quote
ParseString(s, i) ==
    LET j == ClosingQuote(s, i + 1)
    IN  IF j = 0 THEN ParseFail ELSE ParseOk(Str(SubSeq(s, i + 1, j - 1)), j + 1)

\* the object with the members of acc, a later member replacing an earlier
\* one of the same key
MembersToObj(acc) ==
    LET keys == {acc[n].k : n \in 1..Len(acc)}
        last(k) == CHOOSE n \in 1..Len(acc) :
                      /\ acc[n].k = k
                      /\ \A m \in (n + 1)..Len(acc) : acc[m].k # k
    IN  Obj([k \in keys |-> acc[last(k)].v])

RECURSIVE ParseValue(_, _)
RECURSIVE ParseElements(_, _, _)
RECURSIVE ParseMembers(_, _, _)

\* the elements of an array after "[" or ","
ParseElements(s, i, acc) ==
    LET i0 == SkipWs(s, i)
    IN  IF i0 <= Len(s) /\ s[i0] = "]" /\ acc = <<>> THEN ParseOk(Arr(<<>>), i0 + 1)
        ELSE LET r == ParseValue(s, i0)
                 k == SkipWs(s, r.next)
             IN  IF ~r.ok \/ k > Len(s) THEN ParseFail
                 ELSE IF s[k] = "," THEN ParseElements(s, k + 1, Append(acc, r.val))
                 ELSE IF s[k] = "]" THEN ParseOk(Arr(Append(acc, r.val)), k + 1)
                 ELSE ParseFail

\* the members of an object after "{" or ","
ParseMembers(s, i, acc) ==
    LET i0 == SkipWs(s, i)
    IN  IF i0 <= Len(s) /\ s[i0] = "}" /\ acc = <<>> THEN ParseOk(Obj(<<>>), i0 + 1)
        ELSE IF i0 > Len(s) \/ s[i0] # "\"" THEN ParseFail
        ELSE LET key == ParseString(s, i0)
                 c == SkipWs(s, key.next)
             IN  IF ~key.ok \/ c > Len(s) \/ s[c] # ":" THEN ParseFail
                 ELSE LET r == ParseValue(s, SkipWs(s, c + 1))
                          k == SkipWs(s, r.next)
                          now == Append(acc, [k |-> key.val.v, v |-> r.val])
                      IN  IF ~r.ok \/ k > Len(s) THEN ParseFail
                          ELSE IF s[k] = "," THEN ParseMembers(s, k + 1, now)
                          ELSE IF s[k] = "}" THEN ParseOk(MembersToObj(now), k + 1)
                          ELSE ParseFail

\* the JSON value that starts at i
ParseValue(s, i) ==
    IF i > Len(s) THEN ParseFail
    ELSE IF s[i] = "\"" THEN ParseString(s, i)
    ELSE IF s[i] = "[" THEN ParseElements(s, i + 1, <<>>)
    ELSE IF s[i] = "{" THEN ParseMembers(s, i + 1, <<>>)
    ELSE IF s[i] = "null" THEN ParseOk(null, i + 1)
    ELSE IF IsDigit(s[i]) THEN ParseOk(Num(DigitValue(s[i])), i + 1)
    ELSE ParseFail

\* JSON.parse: one value with white space around it, else a SyntaxError
JSONParse(s) ==
    LET r == ParseValue(s, SkipWs(s, 1))
    IN  IF r.ok /\ SkipWs(s, r.next) = Len(s) + 1 THEN r ELSE ParseFail

----------------------------------------------------------------------------
(* Normalization of the parsed record, lines 117-124 *)

\* ToBoolean of a JavaScript value, the test made by ||
Truthy(x) ==
    CASE x.t = "str" -> x.v # <<>>
      [] x.t = "num" -> x.v # 0
      [] x.t \in {"arr", "obj"} -> TRUE
      [] OTHER -> FALSE

\* a || b
OrElse(a, b) == IF Truthy(a) THEN a ELSE b

\* o.k for a value o that is not null: a missing property, and any property
\* of a number, reads as undefined
Get(o, k) == IF o.t = "obj" /\ k \in DOMAIN o.v THEN o.v[k] ELSE undefined

Field(name) == <<name>>

DefaultedFields ==
    {Field("relatedEnglishWords"), Field("sampleSentences"), Field("confidence"),
     Field("languageFamily"), Field("pronunciation")}

\* lines 117-124 with word in place of word.trim() on line 123
SafeAnalysisRawWord(parsedAnalysis, w) ==
    LET own == IF parsedAnalysis.t = "obj" THEN DOMAIN parsedAnalysis.v ELSE {}
    IN  Obj([k \in own \cup DefaultedFields |->
              CASE k \in {Field("relatedEnglishWords"), Field("sampleSentences")} ->
                      OrElse(Get(parsedAnalysis, k), Arr(<<>>))
                [] k = Field("confidence") ->
                      OrElse(Get(parsedAnalysis, k), Str(<<"medium">>))
                [] k = Field("languageFamily") ->
                      OrElse(Get(parsedAnalysis, k), Str(<<"Romance">>))
                [] k = Field("pronunciation") ->
                      OrElse(Get(parsedAnalysis, k), Str(w))
                [] OTHER -> parsedAnalysis.v[k]])

\* lines 117-124: { ...parsedAnalysis, five fields with their fallbacks }
\* w is the word of the render that started the analysis
SafeAnalysis(parsedAnalysis, w) ==
    LET own == IF parsedAnalysis.t = "obj" THEN DOMAIN parsedAnalysis.v ELSE {}
    IN  Obj([k \in own \cup DefaultedFields |->
              CASE k = Field("relatedEnglishWords") ->
                      OrElse(Get(parsedAnalysis, k), Arr(<<>>))
                [] k = Field("sampleSentences") ->
                      OrElse(Get(parsedAnalysis, k), Arr(<<>>))
                [] k = Field("confidence") ->
                      OrElse(Get(parsedAnalysis, k), Str(<<"medium">>))
                [] k = Field("languageFamily") ->
                      OrElse(Get(parsedAnalysis, k), Str(<<"Romance">>))
                [] k = Field("pronunciation") ->
                      OrElse(Get(parsedAnalysis, k), Str(Trim(w)))
                [] OTHER -> parsedAnalysis.v[k]])

----------------------------------------------------------------------------
(* Errors, lines 48, 106 and 132-140 *)

NoError == <<>>
InputError == <<"Please enter a Spanish word">>
ParseError == <<"Failed to parse analysis. Please try again.">>
UnknownError == <<"Failed to analyze the word. Please try again.">>

Exception(name, message) == [name |-> name, message |-> message]

\* String.prototype.includes for a text that is one atom
Includes(s, atom) == \E n \in 1..Len(s) : s[n] = atom

\* line 106
ApiException(status, statusText) ==
    Exception("Error", <<"OpenAI API error", ": ", status, " ", statusText>>)

\* the rejection of fetch when the request cannot be made
NetworkException == Exception("TypeError", <<"Failed to fetch">>)

\* parsedAnalysis.relatedEnglishWords when parsedAnalysis is null
NullPropertyException ==
    Exception("TypeError", <<"Cannot read properties of null">>)

\* the SyntaxError of JSON.parse; its message quotes the text
SyntaxException(text) ==
    Exception("SyntaxError", <<"Unexpected token">> \o text \o <<"is not valid JSON">>)

\* lines 134-140: the message set by the catch block
CatchMessage(err) ==
    IF Includes(err.message, "OpenAI API error")
    THEN <<"API Error: ">> \o err.message \o <<". Please check your OpenAI API key.">>
    ELSE IF err.name = "SyntaxError" THEN ParseError
    ELSE UnknownError

----------------------------------------------------------------------------
(* Inputs of the search flow *)

\* values the user may leave in the input
InputWords == {<<" ">>, <<" ", "casa", " ">>, <<"sol">>, <<"luz">>}

Quoted(s) == <<"\"">> \o s \o <<"\"">>
Member(k, valueText) == Quoted(<<k>>) \o <<":", " ">> \o valueText

RECURSIVE Join(_, _)
Join(texts, sep) ==
    IF texts = <<>> THEN <<>>
    ELSE IF Len(texts) = 1 THEN texts[1]
    ELSE texts[1] \o sep \o Join(Tail(texts), sep)

RecordText(members) == <<"{">> \o Join(members, <<",", "\n">>) \o <<"}">>
ArrayText(elements) == <<"[">> \o Join(elements, <<",", " ">>) \o <<"]">>

RequiredMembers ==
    << Member("word", Quoted(<<"casa">>)),
       Member("englishMeaning", Quoted(<<"house">>)),
       Member("etymology", Quoted(<<"from", " ", "Latin", " ", "casa">>)),
       Member("mnemonic", Quoted(<<"a", " ", "casino", " ", "is", " ", "a", " ", "house">>)) >>

\* every optional field present
FullText ==
    RecordText(RequiredMembers \o
      << Member("relatedEnglishWords",
                ArrayText(<<Quoted(<<"casino">>), Quoted(<<"chalet">>)>>)),
         Member("sampleSentences",
                ArrayText(<<RecordText(<<Member("spanish", Quoted(<<"Mi", " ", "casa">>)),
                                         Member("english", Quoted(<<"My", " ", "house">>))>>)>>)),
         Member("confidence", Quoted(<<"high">>)),
         Member("languageFamily", Quoted(<<"Ibero-Romance">>)),
         Member("pronunciation", Quoted(<<"KA-sa">>)) >>)

\* every optional field omitted
MinimalText == RecordText(RequiredMembers)

\* optional fields present with the values "", null and 0
FalsyText ==
    RecordText(RequiredMembers \o
      << Member("relatedEnglishWords", <<"null">>),
         Member("sampleSentences", <<"0">>),
         Member("confidence", Quoted(<<>>)),
         Member("languageFamily", <<"null">>),
         Member("pronunciation", Quoted(<<>>)) >>)

\* a confidence outside high, medium, low; empty sequences
CertainText ==
    RecordText(RequiredMembers \o
      << Member("relatedEnglishWords", ArrayText(<<>>)),
         Member("confidence", Quoted(<<"certain">>)) >>)

LowText == RecordText(RequiredMembers \o << Member("confidence", Quoted(<<"low">>)) >>)

\* an etymology that quotes a code fence
FenceInsideText ==
    RecordText(
      << Member("word", Quoted(<<"casa">>)),
         Member("etymology", Quoted(<<"written", " ", FENCE, "casa", FENCE>>)) >>)

\* the shortest record
WordOnlyText == RecordText(<< Member("word", Quoted(<<"casa">>)) >>)

JsonTexts == {WordOnlyText, FullText, MinimalText, FalsyText, CertainText, LowText, FenceInsideText}

\* completion texts that are no JSON record
ProseText == <<"Sorry", ",", " ", "no", " ", "analysis">>
NullText == <<"null">>

SentenceText ==
    RecordText(<<Member("spanish", Quoted(<<"Mi", " ", "casa">>)),
                 Member("english", Quoted(<<"My", " ", "house">>))>>)

\* relatedEnglishWords a string
StringRelatedText ==
    RecordText(RequiredMembers \o
      << Member("relatedEnglishWords", Quoted(<<"casino">>)),
         Member("sampleSentences", ArrayText(<<SentenceText>>)) >>)

\* sampleSentences a number
NumberSentencesText ==
    RecordText(RequiredMembers \o
      << Member("relatedEnglishWords", ArrayText(<<Quoted(<<"casino">>)>>)),
         Member("sampleSentences", <<"7">>) >>)

\* sampleSentences one sentence that is not wrapped in a sequence
ObjectSentencesText ==
    RecordText(RequiredMembers \o << Member("sampleSentences", SentenceText) >>)

Wraps == {"none", "fence", "json"}

\* the text wrapped in a markdown code fence, with or without the json tag
Wrap(text, wrap) ==
    CASE wrap = "none" -> text
      [] wrap = "fence" -> <<FENCE, "\n">> \o text \o <<"\n", FENCE>>
      [] wrap = "json" -> <<FENCE, "json", "\n">> \o text \o <<"\n", FENCE>>

\* a response with response.ok whose choices[0].message.content is the text
Completion(text, wrap) ==
    [kind |-> "ok", content |-> Wrap(text, wrap), json |-> text, wrap |-> wrap]

Rejected == [kind |-> "reject"]
Unauthorized == [kind |-> "status", status |-> "401", statusText |-> "Unauthorized"]

SearchOutcomes == {Unauthorized, Completion(WordOnlyText, "none")}

NormalizerOutcomes ==
    {Completion(text, wrap) : text \in JsonTexts \cup {ProseText, NullText}, wrap \in Wraps}

\* the ways a call fails, and one that succeeds: fetch rejects, the service
\* answers 401, the completion is prose, fenced or not
ErrorOutcomes ==
    {Rejected, Unauthorized, Completion(ProseText, "none"),
     Completion(ProseText, "json"), Completion(WordOnlyText, "none")}

\* records for the result block: lists as documented, falsy, and not lists
RenderOutcomes ==
    {Completion(text, "none") :
        text \in {FullText, FalsyText, StringRelatedText, NumberSentencesText,
                  ObjectSentencesText}}

----------------------------------------------------------------------------
(* The try block of analyzeWord, lines 105-130 *)

\* every completion text of the model
CompletionTexts ==
    {o.content : o \in {x \in SearchOutcomes \cup NormalizerOutcomes \cup ErrorOutcomes
                                 \cup RenderOutcomes :
                            x.kind = "ok"}}

\* lines 113 and 114, tabulated over the completion texts
Cleaned == [aiResponse \in CompletionTexts |-> CleanedResponse(aiResponse)]
Parsed == [aiResponse \in CompletionTexts |-> JSONParse(Cleaned[aiResponse])]

\* lines 105-130 for a response that arrived: what the try block stores, or
\* the exception it throws.  flow is the pending call.
TryBlock(flow, outcome) ==
    IF outcome.kind = "reject" THEN [thrown |-> TRUE, err |-> NetworkException]
    ELSE IF outcome.kind = "status"
    THEN [thrown |-> TRUE, err |-> ApiException(outcome.status, outcome.statusText)]
    ELSE LET cleanedResponse == Cleaned[outcome.content]
             parsed == Parsed[outcome.content]
         IN  IF ~parsed.ok
             THEN [thrown |-> TRUE, err |-> SyntaxException(cleanedResponse)]
             ELSE IF parsed.val.t = "null"
             THEN [thrown |-> TRUE, err |-> NullPropertyException]
             ELSE [thrown |-> FALSE,
                   analysis |-> SafeAnalysis(parsed.val, flow.word),
                   recentSearches |-> NewSearches(flow.word, flow.recentSearches)]

----------------------------------------------------------------------------
(* The voice registry, lines 22-44 *)

Voice(lang, name) == [t |-> "voice", lang |-> lang, name |-> name]

\* String.prototype.toLowerCase, atom by atom
LowerAtom(a) ==
    CASE a \in {"Google", "GOOGLE"} -> "google"
      [] a \in {"Spanish", "SPANISH"} -> "spanish"
      [] OTHER -> a

ToLowerCase(s) == [n \in 1..Len(s) |-> LowerAtom(s[n])]

\* String.prototype.startsWith for a prefix that is one atom
StartsWith(s, atom) == s # <<>> /\ s[1] = atom

\* lines 25-27: the predicate of voices.filter
IsSpanishVoice(voice) ==
    StartsWith(voice.lang, "es") \/ Includes(ToLowerCase(voice.name), "spanish")

RECURSIVE FilterSpanish(_)
FilterSpanish(voices) ==
    IF voices = <<>> THEN <<>>
    ELSE IF IsSpanishVoice(Head(voices))
    THEN <<Head(voices)>> \o FilterSpanish(Tail(voices))
    ELSE FilterSpanish(Tail(voices))

EsUS == <<"es", "-", "US">>

\* line 32
IsGoogleEsUS(voice) ==
    voice.lang = EsUS /\ Includes(ToLowerCase(voice.name), "google")

\* line 34
IsEsUS(voice) == voice.lang = EsUS

\* Array.prototype.find with the predicate of line 32
FindGoogleEsUS(voices) ==
    IF \E n \in 1..Len(voices) : IsGoogleEsUS(voices[n])
    THEN LET n == CHOOSE n \in 1..Len(voices) :
                      /\ IsGoogleEsUS(voices[n])
                      /\ \A m \in 1..(n - 1) : ~IsGoogleEsUS(voices[m])
         IN  voices[n]
    ELSE undefined

\* Array.prototype.find with the predicate of line 34
FindEsUS(voices) ==
    IF \E n \in 1..Len(voices) : IsEsUS(voices[n])
    THEN LET n == CHOOSE n \in 1..Len(voices) :
                      /\ IsEsUS(voices[n])
                      /\ \A m \in 1..(n - 1) : ~IsEsUS(voices[m])
         IN  voices[n]
    ELSE undefined

\* spanishVoices[0]
First(voices) == IF voices = <<>> THEN undefined ELSE voices[1]

\* lines 31-35; a voice is an object, every voice is truthy
PreferredVoice(spanishVoices) ==
    IF FindGoogleEsUS(spanishVoices) # undefined THEN FindGoogleEsUS(spanishVoices)
    ELSE IF FindEsUS(spanishVoices) # undefined THEN FindEsUS(spanishVoices)
    ELSE First(spanishVoices)

\* lines 37-39: the voice selected after loadVoices when current was selected
SelectedAfterLoad(preferredVoice, current) ==
    IF preferredVoice # undefined THEN preferredVoice ELSE current

\* lines 23-40, with voices the catalog returned by getVoices()
loadVoices(voices) ==
    LET spanishVoices == FilterSpanish(voices)
    IN  /\ availableVoices' = spanishVoices
        /\ selectedVoice' = SelectedAfterLoad(PreferredVoice(spanishVoices), selectedVoice)

----------------------------------------------------------------------------
(* The start of analyzeWord, lines 46-103 *)

\* line 47 without trim(): !word
EmptyInputUntrimmed(w) == w = <<>>

\* line 47: !word.trim()
EmptyInput(w) == Trim(w) = <<>>

\* lines 252 and 260: the disabled attributes
InputDisabled == loading
SubmitDisabled == loading \/ Trim(word) = <<>>

\* The call reads word and recentSearches of the current render.  A call that
\* passes line 47 issues the request and is suspended at await fetch.
analyzeWord ==
    IF EmptyInput(word)
    THEN /\ error' = InputError
         /\ UNCHANGED <<analysis, loading, recentSearches, flows, served,
                        searched, overlapped>>
    ELSE /\ Len(searched) + BagCardinality(flows) < MaxSearches
         /\ BagCardinality(flows) < MaxFlows
         /\ loading' = TRUE
         /\ error' = NoError
         /\ analysis' = null
         /\ flows' = flows (+) SetToBag({[word |-> word, recentSearches |-> recentSearches]})
         /\ served' = null
         /\ overlapped' = (overlapped \/ flows # EmptyBag)
         /\ UNCHANGED <<recentSearches, searched>>

----------------------------------------------------------------------------
(* The result block, lines 285-470, and copyAnalysis, lines 157-178 *)

\* lines 10-15
Sections == {"etymology", "related", "mnemonic", "sentences"}

IsArray(v) == v.t = "arr"

\* reading a property of null or undefined raises a TypeError
ReadRaises(v) == v.t \in {"null", "undefined"}

\* what React accepts between two tags: no plain object, at any depth
RECURSIVE ValidChild(_)
ValidChild(v) ==
    CASE v.t = "obj" -> FALSE
      [] v.t = "arr" -> \A n \in 1..Len(v.v) : ValidChild(v.v[n])
      [] OTHER -> TRUE

\* lines 400-411: map is a method of arrays only
RelatedRaises(record) ==
    LET list == OrElse(Get(record, Field("relatedEnglishWords")), Arr(<<>>))
    IN  \/ ~IsArray(list)
        \/ \E n \in 1..Len(list.v) : ~ValidChild(list.v[n])

\* lines 452-465
SentencesRaise(record) ==
    LET list == OrElse(Get(record, Field("sampleSentences")), Arr(<<>>))
    IN  \/ ~IsArray(list)
        \/ \E n \in 1..Len(list.v) :
              \/ ReadRaises(list.v[n])
              \/ ~ValidChild(OrElse(Get(list.v[n], Field("spanish")), Str(<<"N/A">>)))
              \/ ~ValidChild(OrElse(Get(list.v[n], Field("english")), Str(<<"N/A">>)))

\* lines 285-470: rendering the result block raises an exception
RenderRaises(record, sections) ==
    /\ Truthy(record)
    /\ \/ \E k \in {"word", "englishMeaning", "pronunciation", "languageFamily",
                     "confidence"} : ~ValidChild(Get(record, Field(k)))
       \/ sections["etymology"] /\ ~ValidChild(Get(record, Field("etymology")))
       \/ sections["related"] /\ RelatedRaises(record)
       \/ sections["mnemonic"] /\ ~ValidChild(Get(record, Field("mnemonic")))
       \/ sections["sentences"] /\ SentencesRaise(record)

\* No error boundary surrounds the component: when a render raises, React
\* removes the whole tree, and no control is left to type in or to click.
Crashed == RenderRaises(analysis, expandedSections)

RECURSIVE ToText(_)
RECURSIVE JoinValues(_, _)

\* String(v), the conversion of a template literal
ToText(v) ==
    CASE v.t = "str" -> v.v
      [] v.t = "num" -> <<ToString(v.v)>>
      [] v.t = "arr" -> JoinValues(v.v, <<",">>)
      [] v.t = "obj" -> <<"[object Object]">>
      [] OTHER -> <<v.t>>

\* Array.prototype.join: null and undefined give the empty string
JoinValues(list, sep) ==
    Join([n \in 1..Len(list) |->
             IF ReadRaises(list[n]) THEN <<>> ELSE ToText(list[n])], sep)

\* lines 160-169 raise a TypeError: join and map are methods of arrays only,
\* and the callback reads two properties of each sentence
CopyRaises(record) ==
    LET related == Get(record, Field("relatedEnglishWords"))
        sentences == Get(record, Field("sampleSentences"))
    IN  \/ ~IsArray(related)
        \/ ~IsArray(sentences)
        \/ \E n \in 1..Len(sentences.v) : ReadRaises(sentences.v[n])

\* line 169, the callback of map
SentenceLine(s) ==
    <<"- ">> \o ToText(Get(s, Field("spanish"))) \o <<" - ">>
             \o ToText(Get(s, Field("english")))

\* lines 160-169; the pictograph in front of each label is left out, and the
\* bullet of a sentence is written as a dash
TextToCopy(record) ==
    LET sentences == Get(record, Field("sampleSentences")).v
    IN  ToText(Get(record, Field("word"))) \o <<" - ">>
           \o ToText(Get(record, Field("englishMeaning")))
           \o <<"\n", "\n", "Etymology: ">> \o ToText(Get(record, Field("etymology")))
           \o <<"\n", "\n", "Related English Words: ">>
           \o JoinValues(Get(record, Field("relatedEnglishWords")).v, <<", ">>)
           \o <<"\n", "\n", "Mnemonic: ">> \o ToText(Get(record, Field("mnemonic")))
           \o <<"\n", "\n", "Sample Sentences:", "\n">>
           \o Join([n \in 1..Len(sentences) |-> SentenceLine(sentences[n])], <<"\n">>)

----------------------------------------------------------------------------
(* Events *)

\* lines 5-19; catalogs are the catalogs the host may hold at page load
InitWith(catalogs) ==
    /\ word = <<>>
    /\ analysis = null
    /\ loading = FALSE
    /\ error = NoError
    /\ recentSearches = InitialRecentSearches
    /\ availableVoices = <<>>
    /\ selectedVoice = null
    /\ showVoiceSelector = FALSE
    /\ catalog \in catalogs
    /\ mounted = FALSE
    /\ flows = EmptyBag
    /\ served = null
    /\ searched = <<>>
    /\ overlapped = FALSE
    /\ manual = FALSE
    /\ expandedSections = [section \in Sections |-> TRUE]
    /\ copied = FALSE
    /\ clipboard = null
    /\ copyRaised = null

\* lines 42-43: the effect that runs once after the first render
Mount ==
    /\ ~mounted
    /\ mounted' = TRUE
    /\ loadVoices(catalog)
    /\ UNCHANGED <<catalog, showVoiceSelector, manual>>
    /\ UNCHANGED searchVars
    /\ UNCHANGED viewVars

\* line 43: the host changed its catalog and fires onvoiceschanged
VoicesChanged(catalogs) ==
    /\ mounted
    /\ \E c \in catalogs :
          /\ catalog' = c
          /\ loadVoices(c)
    /\ UNCHANGED <<mounted, showVoiceSelector, manual>>
    /\ UNCHANGED searchVars
    /\ UNCHANGED viewVars

\* line 304, inside the block rendered when analysis is set
ToggleVoiceSelector ==
    /\ mounted
    /\ ~Crashed
    /\ analysis # null
    /\ showVoiceSelector' = ~showVoiceSelector
    /\ UNCHANGED <<availableVoices, selectedVoice, catalog, mounted, manual>>
    /\ UNCHANGED searchVars
    /\ UNCHANGED viewVars

\* lines 338-341
SelectVoice ==
    /\ mounted
    /\ ~Crashed
    /\ analysis # null
    /\ showVoiceSelector
    /\ \E n \in 1..Len(availableVoices) : selectedVoice' = availableVoices[n]
    /\ showVoiceSelector' = FALSE
    /\ manual' = TRUE
    /\ UNCHANGED <<availableVoices, catalog, mounted>>
    /\ UNCHANGED searchVars
    /\ UNCHANGED viewVars

\* line 248: onChange of the input
TypeWord(words) ==
    /\ mounted
    /\ ~Crashed
    /\ ~InputDisabled
    /\ \E w \in words : word' = w
    /\ UNCHANGED <<analysis, loading, error, recentSearches, flows, served,
                   searched, overlapped>>
    /\ UNCHANGED voiceVars
    /\ UNCHANGED viewVars

\* line 249: Enter in the input
PressEnter ==
    /\ mounted
    /\ ~Crashed
    /\ ~InputDisabled
    /\ analyzeWord
    /\ UNCHANGED word
    /\ UNCHANGED voiceVars
    /\ UNCHANGED viewVars

\* line 259: the submit button
ClickSubmit ==
    /\ mounted
    /\ ~Crashed
    /\ ~SubmitDisabled
    /\ analyzeWord
    /\ UNCHANGED word
    /\ UNCHANGED voiceVars
    /\ UNCHANGED viewVars

\* line 483: setWord(search); analyzeWord();  the button has no disabled attribute
ClickRecent ==
    /\ mounted
    /\ ~Crashed
    /\ \E n \in 1..Len(recentSearches) : word' = recentSearches[n]
    /\ analyzeWord
    /\ UNCHANGED voiceVars
    /\ UNCHANGED viewVars

\* lines 150-155, from the buttons of lines 365, 388, 418 and 441
ToggleSection ==
    /\ mounted
    /\ ~Crashed
    /\ analysis # null
    /\ \E section \in Sections :
          expandedSections' = [expandedSections EXCEPT ![section] = ~@]
    /\ UNCHANGED <<copied, clipboard, copyRaised>>
    /\ UNCHANGED searchVars
    /\ UNCHANGED voiceVars

\* lines 157-178, from the button of line 312; the host grants the page the
\* clipboard or refuses it
CopyAnalysis ==
    /\ mounted
    /\ ~Crashed
    /\ analysis # null
    /\ IF CopyRaises(analysis)
       THEN /\ copyRaised' = analysis
            /\ UNCHANGED <<copied, clipboard>>
       ELSE /\ copyRaised' = null
            /\ \E granted \in BOOLEAN :
                  IF granted
                  THEN clipboard' = TextToCopy(analysis) /\ copied' = TRUE
                  ELSE UNCHANGED <<copied, clipboard>>
    /\ UNCHANGED expandedSections
    /\ UNCHANGED searchVars
    /\ UNCHANGED voiceVars

\* line 174: the timer of copyAnalysis fires
CopiedTimeout ==
    /\ copied
    /\ copied' = FALSE
    /\ UNCHANGED <<expandedSections, clipboard, copyRaised>>
    /\ UNCHANGED searchVars
    /\ UNCHANGED voiceVars

\* lines 105-143: the response of a pending call arrives
Resolve(outcomes) ==
    /\ \E flow \in BagToSet(flows), outcome \in outcomes :
          LET r == TryBlock(flow, outcome)
          IN  /\ flows' = flows (-) SetToBag({flow})
              /\ loading' = FALSE
              /\ IF r.thrown
                 THEN /\ error' = CatchMessage(r.err)
                      /\ UNCHANGED <<analysis, recentSearches, served, searched>>
                 ELSE /\ analysis' = r.analysis
                      /\ recentSearches' = r.recentSearches
                      /\ served' = [outcome |-> outcome, word |-> flow.word]
                      /\ searched' = Append(searched, Trim(flow.word))
                      /\ UNCHANGED error
    /\ UNCHANGED <<word, overlapped>>
    /\ UNCHANGED voiceVars
    /\ UNCHANGED viewVars

----------------------------------------------------------------------------
(* Voices of the host *)

GoogleUS == Voice(EsUS, <<"Google", " ", "espanol", " ", "de", " ", "Estados", " ", "Unidos">>)
PaulinaUS == Voice(EsUS, <<"Paulina">>)
MonicaES == Voice(<<"es", "-", "ES">>, <<"Monica">>)
SpanishEN == Voice(<<"en", "-", "US">>, <<"Microsoft", " ", "Spanish", " ", "Voice">>)
AlexEN == Voice(<<"en", "-", "US">>, <<"Alex">>)

Voices == {GoogleUS, PaulinaUS, MonicaES, SpanishEN, AlexEN}

MaxCatalog == 2     \* voices in the catalog of the host

\* the catalogs: sequences of at most MaxCatalog different voices
Catalogs ==
    UNION {{c \in [1..n -> Voices] : \A i, j \in 1..n : i # j => c[i] # c[j]} :
             n \in 0..MaxCatalog}

----------------------------------------------------------------------------
(* Specifications *)

\* The search flow with every input word and every kind of outcome.  The
\* voice registry shares no state with it and is left as Mount found it.
Init == InitWith({<<MonicaES>>})

Next ==
    \/ Mount
    \/ TypeWord(InputWords)
    \/ PressEnter
    \/ ClickSubmit
    \/ ClickRecent
    \/ Resolve(SearchOutcomes)

Spec == Init /\ [][Next]_vars

\* The normalizer with every completion text, wrapped and unwrapped, for a
\* word with white space around it and a word without, in runs where the
\* user types and submits and leaves the recent searches alone.
NormalizerWords == {<<" ", "casa", " ">>, <<"sol">>}

NextNormalizer ==
    \/ Mount
    \/ TypeWord(NormalizerWords)
    \/ PressEnter
    \/ ClickSubmit
    \/ Resolve(NormalizerOutcomes)

SpecNormalizer == Init /\ [][NextNormalizer]_vars

\* The catch block with every kind of failure and every input word, in runs
\* where the user types and submits and leaves the recent searches alone.
NextErrors ==
    \/ Mount
    \/ TypeWord(InputWords)
    \/ PressEnter
    \/ ClickSubmit
    \/ Resolve(ErrorOutcomes)

SpecErrors == Init /\ [][NextErrors]_vars

\* The result block with lists as documented, falsy and not lists: the user
\* searches one word, opens and closes the sections and copies the record.
NextRender ==
    \/ Mount
    \/ TypeWord({<<"casa">>})
    \/ ClickSubmit
    \/ Resolve(RenderOutcomes)
    \/ ToggleSection
    \/ CopyAnalysis
    \/ CopiedTimeout

SpecRender == Init /\ [][NextRender]_vars

\* The voice registry with every catalog; one word and one record bring up
\* the result block that holds the voice selector.
InitVoice == InitWith(Catalogs)

NextVoice ==
    \/ Mount
    \/ VoicesChanged(Catalogs)
    \/ ToggleVoiceSelector
    \/ SelectVoice
    \/ TypeWord({<<"casa">>})
    \/ ClickSubmit
    \/ Resolve({Completion(WordOnlyText, "none")})

SpecVoice == InitVoice /\ [][NextVoice]_vars

----------------------------------------------------------------------------
(* Claims about the search flow, checked under Spec *)

\* C1: at most one completion request is outstanding in every reachable
\* state, whatever the user does while a request is pending.
C1_AtMostOneOutstanding == BagCardinality(flows) <= 1

\* C2: the loading flag is true in every state in which an accepted analysis
\* has not resolved yet; it becomes false only when that analysis resolves.
C2_LoadingUntilResolved == flows # EmptyBag => loading

\* C3: when analyzeWord runs with a word that is empty or only white space,
\* no request is issued, the error becomes the input error, and loading, the
\* result store and the recent searches are left as they were.
C3_BlankInputIssuesNoRequest ==
    [][(Trim(word) = <<>> /\ (PressEnter \/ ClickSubmit \/ ClickRecent))
          => /\ error' = InputError
             /\ flows' = flows
             /\ loading' = loading
             /\ analysis' = analysis
             /\ recentSearches' = recentSearches]_vars

\* C3 witness: analyzeWord has run on a word of white space only.
C3_Witness == error = InputError /\ word = <<" ">> /\ flows = EmptyBag

\* the different entries of a history, the most recent first
RECURSIVE MostRecentFirst(_)
MostRecentFirst(history) ==
    IF history = <<>> THEN <<>>
    ELSE LET last == history[Len(history)]
             before == SubSeq(history, 1, Len(history) - 1)
         IN  <<last>> \o MostRecentFirst(SelectSeq(before, LAMBDA x : x # last))

Occurs(x, list) == \E n \in 1..Len(list) : list[n] = x

\* the entries of the initial list that were not searched, in their order
UnsearchedInitial == SelectSeq(InitialRecentSearches, LAMBDA x : ~Occurs(x, searched))

FirstFive(list) == SubSeq(list, 1, IF Len(list) > 5 THEN 5 ELSE Len(list))

\* C4 as stated: after searches made one after another the list is exactly the
\* different terms searched, the most recent first, cut to 5, and holds no
\* term that was not searched.
C4_OnlySearchedTerms ==
    (~overlapped /\ searched # <<>>) =>
        recentSearches = FirstFive(MostRecentFirst(searched))

\* C4 amended: after searches made one after another the list is the different
\* trimmed terms searched, the most recent first, followed by the entries of
\* the initial list that were not searched, cut to 5.
C4_SearchedThenInitial ==
    ~overlapped =>
        recentSearches = FirstFive(MostRecentFirst(searched) \o UnsearchedInitial)

\* C4 witness: three different new words searched one after another; the last
\* initial entry has been cut off.
C4_Witness ==
    /\ ~overlapped
    /\ Len(searched) = 3
    /\ Len(recentSearches) = 5
    /\ recentSearches[4] = <<"biblioteca">>
    /\ recentSearches[5] = <<"ventana">>

\* C5: the recent searches never hold more than 5 entries and never hold a
\* string twice, after successful, failed and overlapping searches alike.
C5_AtMostFiveDistinct ==
    /\ Len(recentSearches) <= 5
    /\ \A i, j \in 1..Len(recentSearches) :
          i # j => recentSearches[i] # recentSearches[j]

\* C5 witness: searches have overlapped and an entry of the full list has
\* been cut off.
C5_Witness ==
    /\ overlapped
    /\ Len(recentSearches) = 5
    /\ ~Occurs(<<"corazon">>, recentSearches)

\* C6: each list stored by a successful analysis of w is w followed by the
\* list as it stood just before the store without w, cut to 5.
C6_StoreExtendsCurrentList ==
    [][Len(searched') > Len(searched) =>
          LET w == searched'[Len(searched')]
          IN  recentSearches' =
                 FirstFive(<<w>> \o SelectSeq(recentSearches, LAMBDA x : x # w))]_vars

----------------------------------------------------------------------------
(* Claims about the normalizer, checked under SpecNormalizer *)

\* what JSON.parse returned for the response behind the stored record
ServedPayload == JSONParse(CleanedResponse(served.outcome.content)).val

\* the documented default of an optional field
DocumentedDefault(k) ==
    CASE k = Field("relatedEnglishWords") -> Arr(<<>>)
      [] k = Field("sampleSentences") -> Arr(<<>>)
      [] k = Field("confidence") -> Str(<<"medium">>)
      [] k = Field("languageFamily") -> Str(<<"Romance">>)
      [] k = Field("pronunciation") -> Str(Trim(served.word))

IsFalsy(x) == x = null \/ x = Str(<<>>) \/ x = Num(0)

\* C7 as stated: the stored record has the documented default for each
\* optional field the payload omits, and every field the payload supplies is
\* passed through unchanged.
C7_SuppliedFieldsUnchanged ==
    served # null =>
        /\ \A k \in DOMAIN ServedPayload.v : analysis.v[k] = ServedPayload.v[k]
        /\ \A k \in DefaultedFields \ DOMAIN ServedPayload.v :
              analysis.v[k] = DocumentedDefault(k)

\* C7 amended: the stored record has the documented default for each optional
\* field the payload omits or supplies as null, 0 or the empty string; every
\* other supplied value, and every other field, is passed through unchanged.
C7_OmittedOrFalsyDefaulted ==
    served # null =>
        /\ DOMAIN analysis.v = DOMAIN ServedPayload.v \cup DefaultedFields
        /\ \A k \in DOMAIN analysis.v :
              analysis.v[k] =
                 IF k \in DefaultedFields
                    /\ (k \notin DOMAIN ServedPayload.v \/ IsFalsy(ServedPayload.v[k]))
                 THEN DocumentedDefault(k)
                 ELSE ServedPayload.v[k]

\* C7 witness: the record stored for a payload that omits every optional
\* field, submitted with a word that has white space around it.
C7_Witness ==
    /\ served # null
    /\ served.outcome.json = MinimalText
    /\ served.word = <<" ", "casa", " ">>
    /\ analysis.v[Field("pronunciation")] = Str(<<"casa">>)

\* C8: the confidence of a stored record is one of high, medium and low.
C8_ConfidenceRecognized ==
    analysis # null =>
        analysis.v[Field("confidence")] \in
            {Str(<<"high">>), Str(<<"medium">>), Str(<<"low">>)}

\* C9: for a JSON text t that parses as a record, the record stored for t
\* wrapped in a code fence is the record stored for t unwrapped, and it has
\* the field values of t itself.
C9_FenceWrappingTransparent ==
    (served # null /\ served.outcome.wrap # "none") =>
        LET t == served.outcome.json
        IN  /\ analysis = SafeAnalysis(JSONParse(CleanedResponse(t)).val, served.word)
            /\ JSONParse(t).ok
            /\ analysis = SafeAnalysis(JSONParse(t).val, served.word)

----------------------------------------------------------------------------
(* Claims about the voice registry, checked under SpecVoice *)

\* the selection policy: an es-US voice named google, else an es-US voice,
\* else the first voice, else none
PolicyChoice(filtered) ==
    LET google == {n \in 1..Len(filtered) :
                      /\ filtered[n].lang = <<"es", "-", "US">>
                      /\ Includes(ToLowerCase(filtered[n].name), "google")}
        us == {n \in 1..Len(filtered) : filtered[n].lang = <<"es", "-", "US">>}
        least(S) == CHOOSE n \in S : \A m \in S : n <= m
    IN  IF google # {} THEN filtered[least(google)]
        ELSE IF us # {} THEN filtered[least(us)]
        ELSE IF filtered # <<>> THEN filtered[1]
        ELSE null

\* C10: after every enumeration, in a run with no manual selection, the
\* selected voice is the choice of the policy among the Spanish voices of the
\* current catalog, none when there is no Spanish voice.
C10_SelectionFollowsPolicy ==
    (mounted /\ ~manual) =>
        selectedVoice = PolicyChoice(SelectSeq(catalog, IsSpanishVoice))

----------------------------------------------------------------------------
(* Claims about the catch block, checked under SpecErrors *)

\* the message of line 135: it names the status and points at the API key
UpstreamMessage(e) ==
    /\ Len(e) > 2
    /\ e[1] = "API Error: "
    /\ e[Len(e)] = ". Please check your OpenAI API key."

\* the outcomes whose completion text JSON.parse rejects
Unparseable == {o \in ErrorOutcomes : o.kind = "ok" /\ ~Parsed[o.content].ok}

\* C11: a call that fails by a rejected fetch or by a non-success status
\* always leaves the upstream-request message, a call whose completion text
\* cannot be parsed always leaves the malformed-response message, and
\* neither leaves the message of the other.
C11_MessageFollowsFailureKind ==
    [][/\ (Resolve({Rejected}) \/ Resolve({Unauthorized}))
            => (UpstreamMessage(error') /\ error' # ParseError)
       /\ (\E o \in Unparseable : Resolve({o}))
            => (error' = ParseError /\ ~UpstreamMessage(error'))]_vars

----------------------------------------------------------------------------
(* More claims about the search flow, checked under Spec *)

\* C12: in every reachable state in which a request is outstanding the
\* result store holds no record; it is cleared when a search starts and
\* filled only by that search's own response.
C12_NoRecordWhilePending == flows # EmptyBag => analysis = null

\* the call that a click on the entry s of the recent searches should start
RequestFor(s) == [word |-> s, recentSearches |-> recentSearches]

\* C14: a click on an entry of the recent searches, in any state, starts an
\* analysis of that entry: the request it issues carries the entry as its
\* word, whatever the search term held before the click.
C14_ClickSearchesEntry ==
    [][ClickRecent => flows' = flows (+) SetToBag({RequestFor(word')})]_vars

----------------------------------------------------------------------------
(* Claims about the result block, checked under SpecRender *)

NonSequence(payload, k) == k \in DOMAIN payload.v /\ ~IsArray(payload.v[k])

\* C13: for every parseable payload in which relatedEnglishWords or
\* sampleSentences is present and is not a sequence, rendering the stored
\* record raises no exception and neither does copyAnalysis on it.
C13_NonSequenceRaisesNothing ==
    (/\ served # null
     /\ \E k \in {Field("relatedEnglishWords"), Field("sampleSentences")} :
           NonSequence(ServedPayload, k))
        => (~Crashed /\ copyRaised # analysis)

====
